---- MODULE Spec2Model ----
(***************************************************************************)
(* ObservableService (src/src/main.js): a record wrapped in a Proxy whose  *)
(* set/deleteProperty traps capture a stale baseline, commit the change    *)
(* and schedule one microtask that delivers frozen (fresh, stale) copies   *)
(* to the subscribers.                                                     *)
(*                                                                         *)
(* The state is the five private fields of the class, the host's queue of  *)
(* pending flush microtasks, and the position of the running flush.  The   *)
(* remaining variables are history variables: they record what happened    *)
(* and are never read by the definitions that model the code.              *)
(*                                                                         *)
(* The operations are those of the documented interface (lines 5-10):      *)
(* writes and deletes through `state`, amendState, pruneState, subscribe,  *)
(* unsubscribe and unsubscribeAll.  addToQueue and emitQueued run only as  *)
(* the class calls them.  A subscriber may also try to change the two      *)
(* objects it received.  A value of the record is undefined or a reference *)
(* to an object, whose content user code changes in place under DeepSpec.  *)
(*                                                                         *)
(* Specifications: Spec is the service on an extensible or frozen record;  *)
(* SealSpec the same on a sealed one; TrackSpec keeps, in `origin`, the    *)
(* record given and then the fresh copy of the latest flush; AliasSpec     *)
(* adds a caller that writes to the object it gave the constructor;        *)
(* FairSpec adds the host's guarantee that queued microtasks run; RootSpec *)
(* is the packaged variant src/main.js, whose traps call amendState and    *)
(* pruneState on the Proxy itself.                                         *)
(* TimerSpec adds the host's timer queue; NumberSpec runs the service on   *)
(* a record of NaN and the two zeros.  The operators named part... are the *)
(* functions of the variant src/unnamed/part_000, compared with those of   *)
(* src/src/main.js state by state.                                         *)
(***************************************************************************)
EXTENDS Integers, Sequences, FiniteSets, TLC

\* ---------------------------------------------------------------- bounds
MaxQueue == 2    \* flush microtasks the host queue may hold
MaxCbOps == 1    \* operations one subscriber call performs on the service
MaxStack == 3    \* nested calls the host's call stack holds (root variant)
MaxTimers == 1   \* timer callbacks the host's task queue may hold

\* ------------------------------------------------------------ the domain
Undef == 0       \* JavaScript undefined: what Reflect.get gives for an absent key
Keys == {"a", "b"}
Obj == 1         \* a reference to the one object value (an object or an array):
                 \* Object.is compares references, the content is `nested`
Values == {Undef, Obj}    \* two values tell a change from a no-op
Callbacks == {"f", "g"}

\* The numbers on which Object.is and === disagree, for NumberSpec.
NaN == 2
PosZero == 3
NegZero == 4
Numbers == {NaN, PosZero, NegZero}

Records == UNION {[D -> Values] : D \in SUBSET Keys}
EmptyRec == [k \in {} |-> Undef]

VARIABLES
  target,               \* #target: the tracked record
  locked,               \* the object given to the constructor is frozen
  sealed,               \* ... is sealed: no key can be added or removed
  preBatchStaleState,   \* #preBatchStaleState
  queuedUpdateNotice,   \* #queuedUpdateNotice
  subscribers,          \* #subscribers: a Set, in insertion order
  microtasks,           \* flush jobs queued by Promise.resolve().then(...)
  pc,                   \* "sync" | "deliver" (inside emitQueued's loop) | "callback"
  iter,                 \* entries of #subscribers the running for-of has passed
  frozenFresh,          \* emitQueued's frozenFresh while a flush delivers
  frozenStale,          \* emitQueued's frozenStale while a flush delivers
  cbOps,                \* operations the running subscriber has performed
  nested,               \* the content (one property) of the object Obj refers to
  snapshot,             \* the pair handed to the subscribers: frozen? copies?
  timers,               \* callbacks queued by setTimeout(..., 0): the task queue
  \* history
  last,                 \* the step just taken
  turnBase,             \* <<r>>: r is the record before the first committed change
                        \* through `state` of this synchronous turn; <<>>: none yet
  turnEnd,              \* the record when the running flush started
  removed,              \* callbacks unsubscribed and not subscribed again since
  invoked,              \* the callbacks the latest flush has called
  regAtFlush,           \* the callbacks registered when the latest flush started
  origin,               \* <<r>>: r is the mapping the constructor was given, then
                        \* the `fresh` of the latest flush that ended; <<>>: not kept
  rejectedIdle          \* since the latest flush ended, the record has refused a
                        \* commit while no batch was pending

code == <<target, locked, sealed, preBatchStaleState, queuedUpdateNotice, subscribers,
          microtasks, pc, iter, frozenFresh, frozenStale, cbOps, nested, snapshot,
          timers>>
history == <<last, turnBase, turnEnd, removed, invoked, regAtFlush, origin, rejectedIdle>>
vars == <<code, history>>

\* ------------------------------------------------------- host primitives
Range(s) == {s[i] : i \in 1..Len(s)}
IndexOf(s, c) == CHOOSE i \in 1..Len(s) : s[i] = c

\* x === y: NaN is not equal to itself, and +0 equals -0.
ObjectIs_strictEquals(x, y) ==
  IF x = NaN \/ y = NaN THEN FALSE
  ELSE IF {x, y} \subseteq {PosZero, NegZero} THEN TRUE
  ELSE x = y

\* Object.is(x, y), SameValue: every value, NaN too, is the same as itself,
\* and +0 and -0, two values here, are not the same.
ObjectIs(x, y) == x = y
ReflectGet(obj, key) == IF key \in DOMAIN obj THEN obj[key] ELSE Undef
HasOwn(obj, key) == key \in DOMAIN obj
Spread(obj) == [k \in DOMAIN obj |-> obj[k]]

\* obj[key] = value and delete obj[key] on an object that accepts them.
Assign(obj, key, value) ==
  [k \in DOMAIN obj \cup {key} |-> IF k = key THEN value ELSE obj[k]]
Remove(obj, key) == [k \in DOMAIN obj \ {key} |-> obj[k]]

\* Reflect.set / Reflect.deleteProperty on the record: a frozen object refuses
\* both, a sealed object refuses to add and to remove a key, and the call
\* answers false without throwing.
ReflectSet(obj, key, value) ==
  IF locked \/ (sealed /\ key \notin DOMAIN obj)
  THEN [ok |-> FALSE, obj |-> obj]
  ELSE [ok |-> TRUE,
        obj |-> [k \in DOMAIN obj \cup {key} |-> IF k = key THEN value ELSE obj[k]]]

ReflectDeleteProperty(obj, key) ==
  IF (locked \/ sealed) /\ key \in DOMAIN obj
  THEN [ok |-> FALSE, obj |-> obj]
  ELSE [ok |-> TRUE, obj |-> [k \in DOMAIN obj \ {key} |-> obj[k]]]

\* --------------------------------------------------- the class's methods
\* Each gives the fields it assigns and the value it returns.

\* amendState with the guard of line 63 dropped: the baseline is captured at
\* every change.
amendState_recapture(key, change) ==
  IF ObjectIs(ReflectGet(target, key), change)
  THEN [ret |-> TRUE, target |-> target, stale |-> preBatchStaleState]
  ELSE LET r == ReflectSet(target, key, change)
       IN [ret |-> r.ok, target |-> r.obj, stale |-> Spread(target)]

\* amendState that keeps a baseline it has captured: with the flag clear it
\* captures only when the baseline is the empty mapping.
amendState_keepCapture(key, change) ==
  IF ObjectIs(ReflectGet(target, key), change)
  THEN [ret |-> TRUE, target |-> target, stale |-> preBatchStaleState]
  ELSE LET st == IF ~queuedUpdateNotice /\ preBatchStaleState = EmptyRec
                 THEN Spread(target) ELSE preBatchStaleState
           r  == ReflectSet(target, key, change)
       IN [ret |-> r.ok, target |-> r.obj, stale |-> st]

amendState(key, change) ==
  IF ObjectIs(ReflectGet(target, key), change)
  THEN [ret |-> TRUE, target |-> target, stale |-> preBatchStaleState]
  ELSE LET st == IF ~queuedUpdateNotice THEN Spread(target) ELSE preBatchStaleState
           r  == ReflectSet(target, key, change)
       IN [ret |-> r.ok, target |-> r.obj, stale |-> st]

\* pruneState with the guard of line 71 dropped.
pruneState_recapture(key) ==
  IF ~HasOwn(target, key)
  THEN [ret |-> TRUE, target |-> target, stale |-> preBatchStaleState]
  ELSE LET r == ReflectDeleteProperty(target, key)
       IN [ret |-> r.ok, target |-> r.obj, stale |-> Spread(target)]

pruneState(key) ==
  IF ~HasOwn(target, key)
  THEN [ret |-> TRUE, target |-> target, stale |-> preBatchStaleState]
  ELSE LET st == IF ~queuedUpdateNotice THEN Spread(target) ELSE preBatchStaleState
           r  == ReflectDeleteProperty(target, key)
       IN [ret |-> r.ok, target |-> r.obj, stale |-> st]

\* addToQueue that sets the flag and hands nothing to the microtask queue, as
\* when the flush is run inside the call.
addToQueue_noTask == [flag |-> TRUE, queue |-> microtasks]

\* addToQueue without the guard of line 78: every call queues a microtask.
addToQueue_unguarded == [flag |-> TRUE, queue |-> microtasks + 1]

\* addToQueue: the flag and the microtask queue after the call.
addToQueue ==
  IF queuedUpdateNotice
  THEN [flag |-> TRUE, queue |-> microtasks]
  ELSE [flag |-> TRUE, queue |-> microtasks + 1]

NotQueued == [flag |-> queuedUpdateNotice, queue |-> microtasks]

\* The set trap without the hadChange test: every successful write queues.
agentSet_unconditional(key, value) ==
  LET hadChange == ~ObjectIs(ReflectGet(target, key), value)
      result    == amendState(key, value)
      q         == IF result.ret THEN addToQueue ELSE NotQueued
  IN [ret |-> result.ret, target |-> result.target, stale |-> result.stale,
      flag |-> q.flag, queue |-> q.queue, hadChange |-> hadChange]

\* The set trap that queues on hadChange alone, whatever amendState returned.
agentSet_ignoreResult(key, value) ==
  LET hadChange == ~ObjectIs(ReflectGet(target, key), value)
      result    == amendState(key, value)
      q         == IF hadChange THEN addToQueue ELSE NotQueued
  IN [ret |-> result.ret, target |-> result.target, stale |-> result.stale,
      flag |-> q.flag, queue |-> q.queue, hadChange |-> hadChange]

\* The Proxy's traps.
agentSet(key, value) ==
  LET hadChange == ~ObjectIs(ReflectGet(target, key), value)
      result    == amendState(key, value)
      q         == IF hadChange /\ result.ret THEN addToQueue ELSE NotQueued
  IN [ret |-> result.ret, target |-> result.target, stale |-> result.stale,
      flag |-> q.flag, queue |-> q.queue, hadChange |-> hadChange]

\* The deleteProperty trap without the hadChange test.
agentDeleteProperty_unconditional(key) ==
  LET hadChange == HasOwn(target, key)
      result    == pruneState(key)
      q         == IF result.ret THEN addToQueue ELSE NotQueued
  IN [ret |-> result.ret, target |-> result.target, stale |-> result.stale,
      flag |-> q.flag, queue |-> q.queue, hadChange |-> hadChange]

\* The deleteProperty trap that queues on hadChange alone, whatever
\* pruneState returned.
agentDeleteProperty_ignoreResult(key) ==
  LET hadChange == HasOwn(target, key)
      result    == pruneState(key)
      q         == IF hadChange THEN addToQueue ELSE NotQueued
  IN [ret |-> result.ret, target |-> result.target, stale |-> result.stale,
      flag |-> q.flag, queue |-> q.queue, hadChange |-> hadChange]

agentDeleteProperty(key) ==
  LET hadChange == HasOwn(target, key)
      result    == pruneState(key)
      q         == IF hadChange /\ result.ret THEN addToQueue ELSE NotQueued
  IN [ret |-> result.ret, target |-> result.target, stale |-> result.stale,
      flag |-> q.flag, queue |-> q.queue, hadChange |-> hadChange]

\* ------------------------------------- the packaged root variant, src/main.js
\* Its methods work on #state, the Proxy itself: Reflect.get, Object.hasOwn
\* and the spread meet no trap and read the record, but Reflect.set and
\* Reflect.deleteProperty on the Proxy enter the set / deleteProperty trap
\* again.  `depth` counts the trap calls on the stack; past MaxStack the host
\* raises a RangeError, which leaves every call on the stack.  The traps call
\* addToQueue whenever the method returned true.
RECURSIVE rootAgentSet(_, _, _)
rootAmendState(key, change, depth) ==
  IF ObjectIs(ReflectGet(target, key), change)
  THEN [ret |-> TRUE, thrown |-> FALSE, stale |-> preBatchStaleState,
        flag |-> queuedUpdateNotice, queue |-> microtasks]
  ELSE LET st == IF ~queuedUpdateNotice THEN Spread(target) ELSE preBatchStaleState
           r  == rootAgentSet(key, change, depth + 1)
       IN [ret |-> r.ret, thrown |-> r.thrown, stale |-> st,
           flag |-> r.flag, queue |-> r.queue]

rootAgentSet(key, value, depth) ==
  IF depth > MaxStack
  THEN [ret |-> FALSE, thrown |-> TRUE, stale |-> preBatchStaleState,
        flag |-> queuedUpdateNotice, queue |-> microtasks]
  ELSE LET result == rootAmendState(key, value, depth)
           queued == ~result.thrown /\ result.ret
       IN [ret |-> result.ret, thrown |-> result.thrown, stale |-> result.stale,
           flag |-> IF queued THEN TRUE ELSE result.flag,
           queue |-> IF queued /\ ~result.flag THEN result.queue + 1 ELSE result.queue]

RECURSIVE rootAgentDeleteProperty(_, _)
rootPruneState(key, depth) ==
  IF ~HasOwn(target, key)
  THEN [ret |-> TRUE, thrown |-> FALSE, stale |-> preBatchStaleState,
        flag |-> queuedUpdateNotice, queue |-> microtasks]
  ELSE LET st == IF ~queuedUpdateNotice THEN Spread(target) ELSE preBatchStaleState
           r  == rootAgentDeleteProperty(key, depth + 1)
       IN [ret |-> r.ret, thrown |-> r.thrown, stale |-> st,
           flag |-> r.flag, queue |-> r.queue]

rootAgentDeleteProperty(key, depth) ==
  IF depth > MaxStack
  THEN [ret |-> FALSE, thrown |-> TRUE, stale |-> preBatchStaleState,
        flag |-> queuedUpdateNotice, queue |-> microtasks]
  ELSE LET result == rootPruneState(key, depth)
           queued == ~result.thrown /\ result.ret
       IN [ret |-> result.ret, thrown |-> result.thrown, stale |-> result.stale,
           flag |-> IF queued THEN TRUE ELSE result.flag,
           queue |-> IF queued /\ ~result.flag THEN result.queue + 1 ELSE result.queue]

\* Set.prototype.add / delete / clear on #subscribers, with the position of a
\* for-of that is running over it: an entry deleted behind the iterator moves
\* the position back, an added entry goes to the end and will be visited.
\* subscribe on a list instead of a Set: the callback is added at every call.
subscribe_append(subscriber) ==
  [subs |-> Append(subscribers, subscriber), iter |-> iter]

subscribe(subscriber) ==
  [subs |-> IF subscriber \in Range(subscribers) THEN subscribers
            ELSE Append(subscribers, subscriber),
   iter |-> iter]

\* unsubscribe that leaves the Set as it is.
unsubscribe_noop(subscriber) == [subs |-> subscribers, iter |-> iter]

unsubscribe(subscriber) ==
  IF subscriber \notin Range(subscribers)
  THEN [subs |-> subscribers, iter |-> iter]
  ELSE LET i == IndexOf(subscribers, subscriber)
       IN [subs |-> SubSeq(subscribers, 1, i - 1)
                      \o SubSeq(subscribers, i + 1, Len(subscribers)),
           iter |-> IF i <= iter THEN iter - 1 ELSE iter]

unsubscribeAll == [subs |-> <<>>, iter |-> 0]

\* No pair is handed out outside a flush.
NoSnapshot == [frozen |-> FALSE, copy |-> FALSE]

\* emitQueued that hands the subscribers its two arguments as they are: the
\* live record and the baseline, not frozen.
emitQueuedCopies_live(fresh, stale) ==
  [fresh |-> fresh, stale |-> stale, frozen |-> FALSE, copy |-> FALSE]

\* emitQueued's two frozen copies: { ...x } makes a new object with the own
\* properties of x, holding the same values (an object value is shared, not
\* copied), and Object.freeze freezes that new object alone.
emitQueuedCopies(fresh, stale) ==
  [fresh |-> Spread(fresh), stale |-> Spread(stale), frozen |-> TRUE, copy |-> TRUE]

\* The microtask without line 83: the flag is cleared, the baseline kept.
flushCleanup_keepBaseline == [flag |-> FALSE, stale |-> preBatchStaleState]

\* The lines after emitQueued in the microtask.
flushCleanup == [flag |-> FALSE, stale |-> EmptyRec]

\* ------------------------------------ the variant src/unnamed/part_000
\* Its traps hold the logic themselves and work on `state`, the trap's first
\* argument, which is the object the Proxy wraps; the queue methods are
\* private.  Each operator gives the fields after the call, as above.
partAddToQueue ==
  IF queuedUpdateNotice
  THEN [flag |-> TRUE, queue |-> microtasks]
  ELSE [flag |-> TRUE, queue |-> microtasks + 1]

\* The set trap of part_000 without its early return of lines 34-36.
partSet_unconditional(key, value) ==
  LET st == IF ~queuedUpdateNotice THEN Spread(target) ELSE preBatchStaleState
      r  == ReflectSet(target, key, value)
      q  == IF r.ok THEN partAddToQueue ELSE NotQueued
  IN [ret |-> r.ok, target |-> r.obj, stale |-> st, flag |-> q.flag,
      queue |-> q.queue]

partSet(key, value) ==
  IF ObjectIs(ReflectGet(target, key), value)
  THEN [ret |-> TRUE, target |-> target, stale |-> preBatchStaleState,
        flag |-> queuedUpdateNotice, queue |-> microtasks]
  ELSE LET st == IF ~queuedUpdateNotice THEN Spread(target) ELSE preBatchStaleState
           r  == ReflectSet(target, key, value)
           q  == IF r.ok THEN partAddToQueue ELSE NotQueued
       IN [ret |-> r.ok, target |-> r.obj, stale |-> st, flag |-> q.flag,
           queue |-> q.queue]

partDeleteProperty(key) ==
  IF ~HasOwn(target, key)
  THEN [ret |-> TRUE, target |-> target, stale |-> preBatchStaleState,
        flag |-> queuedUpdateNotice, queue |-> microtasks]
  ELSE LET st == IF ~queuedUpdateNotice THEN Spread(target) ELSE preBatchStaleState
           r  == ReflectDeleteProperty(target, key)
           q  == IF r.ok THEN partAddToQueue ELSE NotQueued
       IN [ret |-> r.ok, target |-> r.obj, stale |-> st, flag |-> q.flag,
           queue |-> q.queue]

partSubscribe(subscriber) ==
  IF subscriber \in Range(subscribers)
  THEN [subs |-> subscribers, iter |-> iter]
  ELSE [subs |-> Append(subscribers, subscriber), iter |-> iter]

partUnsubscribe(subscriber) ==
  IF subscriber \notin Range(subscribers)
  THEN [subs |-> subscribers, iter |-> iter]
  ELSE LET i == IndexOf(subscribers, subscriber)
       IN [subs |-> SubSeq(subscribers, 1, i - 1)
                      \o SubSeq(subscribers, i + 1, Len(subscribers)),
           iter |-> IF i <= iter THEN iter - 1 ELSE iter]

partUnsubscribeAll == [subs |-> <<>>, iter |-> 0]

partEmitQueued(fresh, stale) ==
  [fresh |-> Spread(fresh), stale |-> Spread(stale), frozen |-> TRUE, copy |-> TRUE]

\* The lines after #emitQueued in the microtask of part_000.
partFlushCleanup == [flag |-> FALSE, stale |-> EmptyRec]

\* ------------------------------------------------------------------ Init
\* new ObservableService(...args): no argument, or one mapping.
Args == {<<>>} \cup {<<r>> : r \in Records}

\* The mapping the caller gave; with no argument, the empty mapping.
Given(args) == IF args = <<>> THEN EmptyRec ELSE args[1]

\* A constructor that starts from an empty record whatever it is given.
construct_blank(args) ==
  [target |-> EmptyRec, stale |-> EmptyRec, flag |-> FALSE, subs |-> <<>>]

\* The field initialisers and the constructor: source defaults to {} and
\* becomes #target as it is.
construct(args) ==
  LET source == IF Len(args) = 0 THEN EmptyRec ELSE args[1]
  IN [target |-> source, stale |-> EmptyRec, flag |-> FALSE, subs |-> <<>>]

\* The state after construction, the object given being as it may.
Built(args) ==
  LET c == construct(args) IN
  /\ target = c.target
  /\ preBatchStaleState = c.stale
  /\ queuedUpdateNotice = c.flag
  /\ subscribers = c.subs
  /\ microtasks = 0
  /\ pc = "sync"
  /\ iter = 0
  /\ frozenFresh = EmptyRec
  /\ frozenStale = EmptyRec
  /\ cbOps = 0
  /\ nested = Undef
  /\ snapshot = NoSnapshot
  /\ timers = 0
  /\ last = "new"
  /\ turnBase = <<>>
  /\ turnEnd = EmptyRec
  /\ removed = {}
  /\ invoked = {}
  /\ regAtFlush = {}
  /\ rejectedIdle = FALSE

\* The object given is extensible or frozen; the default {} is extensible.
Init ==
  \E args \in Args :
    /\ Built(args)
    /\ locked \in BOOLEAN
    /\ args = <<>> => ~locked
    /\ sealed = locked
    /\ origin = <<>>

\* The same, keeping what the caller gave and what was last delivered.
TrackInit ==
  \E args \in Args :
    /\ Built(args)
    /\ locked = FALSE
    /\ sealed = FALSE
    /\ origin = <<Given(args)>>

\* The object given is sealed and not frozen.
SealInit ==
  \E args \in Args :
    /\ Built(args)
    /\ args # <<>>
    /\ locked = FALSE
    /\ sealed = TRUE
    /\ origin = <<>>

\* The caller gave an object and kept its reference to it.
AliasInit ==
  \E args \in Args :
    /\ Built(args)
    /\ args # <<>>
    /\ locked \in BOOLEAN
    /\ sealed = locked
    /\ origin = <<>>

\* The record given holds numbers, NaN and the two zeros among them.
NumberInit ==
  \E r \in UNION {[D -> Numbers] : D \in SUBSET Keys} :
    /\ Built(<<r>>)
    /\ locked = FALSE
    /\ sealed = FALSE
    /\ origin = <<>>

\* --------------------------------------------------------------- actions
\* User code runs in the synchronous turn or inside a subscriber, where it
\* performs at most MaxCbOps operations.
UserCode ==
  /\ pc \in {"sync", "callback"}
  /\ pc = "callback" => cbOps < MaxCbOps
  /\ cbOps' = IF pc = "callback" THEN cbOps + 1 ELSE cbOps

\* The history of the latest flush is kept until the next operation of a
\* synchronous turn.
FlushStats ==
  IF pc = "sync" THEN invoked' = {} /\ regAtFlush' = {}
  ELSE UNCHANGED <<invoked, regAtFlush>>

\* The first committed change through `state` of a synchronous turn.
Committed(r) ==
  turnBase' = IF pc = "sync" /\ r.hadChange /\ r.ret /\ turnBase = <<>>
              THEN <<target>> ELSE turnBase

\* A change the record refused while no batch was pending.
Refused(hadChange, ret) ==
  rejectedIdle' = (rejectedIdle \/ (hadChange /\ ~ret /\ ~queuedUpdateNotice))

\* What an operation did: "set" a committed change, "setRejected" a change the
\* record refused, "setNoop" no change and true returned.
Outcome(op, hadChange, ret) ==
  IF hadChange THEN (IF ret THEN op ELSE op \o "Rejected")
  ELSE (IF ret THEN op \o "Noop" ELSE op \o "NoopFailed")

\* service.state[key] = value.  When the trap returns false the assignment
\* throws a TypeError in strict code; the fields are as the trap left them.
Write(key, value) ==
  LET r == agentSet(key, value) IN
  /\ UserCode
  /\ r.queue <= MaxQueue
  /\ target' = r.target
  /\ preBatchStaleState' = r.stale
  /\ queuedUpdateNotice' = r.flag
  /\ microtasks' = r.queue
  /\ last' = Outcome("set", r.hadChange, r.ret)
  /\ Committed(r)
  /\ FlushStats
  /\ Refused(r.hadChange, r.ret)
  /\ UNCHANGED <<timers, sealed, origin, nested, snapshot, locked, subscribers, pc,
                 iter, frozenFresh, frozenStale, turnEnd, removed>>

\* delete service.state[key]
Delete(key) ==
  LET r == agentDeleteProperty(key) IN
  /\ UserCode
  /\ r.queue <= MaxQueue
  /\ target' = r.target
  /\ preBatchStaleState' = r.stale
  /\ queuedUpdateNotice' = r.flag
  /\ microtasks' = r.queue
  /\ last' = Outcome("delete", r.hadChange, r.ret)
  /\ Committed(r)
  /\ FlushStats
  /\ Refused(r.hadChange, r.ret)
  /\ UNCHANGED <<timers, sealed, origin, nested, snapshot, locked, subscribers, pc,
                 iter, frozenFresh, frozenStale, turnEnd, removed>>

\* service.amendState(key, value), called directly
CallAmendState(key, value) ==
  LET r == amendState(key, value) IN
  /\ UserCode
  /\ target' = r.target
  /\ preBatchStaleState' = r.stale
  /\ last' = Outcome("direct", ~ObjectIs(ReflectGet(target, key), value), r.ret)
  /\ FlushStats
  /\ Refused(~ObjectIs(ReflectGet(target, key), value), r.ret)
  /\ UNCHANGED <<timers, sealed, origin, nested, snapshot, locked,
                 queuedUpdateNotice, subscribers, microtasks, pc, iter, frozenFresh,
                 frozenStale, turnBase, turnEnd, removed>>

\* service.pruneState(key), called directly
CallPruneState(key) ==
  LET r == pruneState(key) IN
  /\ UserCode
  /\ target' = r.target
  /\ preBatchStaleState' = r.stale
  /\ last' = Outcome("direct", HasOwn(target, key), r.ret)
  /\ FlushStats
  /\ Refused(HasOwn(target, key), r.ret)
  /\ UNCHANGED <<timers, sealed, origin, nested, snapshot, locked,
                 queuedUpdateNotice, subscribers, microtasks, pc, iter, frozenFresh,
                 frozenStale, turnBase, turnEnd, removed>>

\* Root variant: service.state[key] = value.  A RangeError leaves the trap
\* before addToQueue; the baseline captured on the way stays.
RootWrite(key, value) ==
  LET r == rootAgentSet(key, value, 1) IN
  /\ UserCode
  /\ r.queue <= MaxQueue
  /\ preBatchStaleState' = r.stale
  /\ queuedUpdateNotice' = r.flag
  /\ microtasks' = r.queue
  /\ last' = IF r.thrown THEN "rootSetOverflow"
             ELSE Outcome("rootSet", ~ObjectIs(ReflectGet(target, key), value), r.ret)
  /\ FlushStats
  /\ UNCHANGED <<timers, sealed, origin, rejectedIdle, nested, snapshot, target,
                 locked, subscribers, pc, iter, frozenFresh, frozenStale, turnBase,
                 turnEnd, removed>>

\* Root variant: delete service.state[key]
RootDelete(key) ==
  LET r == rootAgentDeleteProperty(key, 1) IN
  /\ UserCode
  /\ r.queue <= MaxQueue
  /\ preBatchStaleState' = r.stale
  /\ queuedUpdateNotice' = r.flag
  /\ microtasks' = r.queue
  /\ last' = IF r.thrown THEN "rootDeleteOverflow"
             ELSE Outcome("rootDelete", HasOwn(target, key), r.ret)
  /\ FlushStats
  /\ UNCHANGED <<timers, sealed, origin, rejectedIdle, nested, snapshot, target,
                 locked, subscribers, pc, iter, frozenFresh, frozenStale, turnBase,
                 turnEnd, removed>>

\* service.state[key].x = value, for a key that holds the object: the Proxy
\* has no get trap, so the read gives the object itself and the assignment
\* goes to the object past the traps.
NestedWrite(key, value) ==
  /\ UserCode
  /\ HasOwn(target, key)
  /\ target[key] = Obj
  /\ nested' = value
  /\ last' = IF ObjectIs(nested, value) THEN "nestedNoop" ELSE "nested"
  /\ FlushStats
  /\ UNCHANGED <<timers, sealed, origin, rejectedIdle, snapshot, target, locked,
                 preBatchStaleState, queuedUpdateNotice, subscribers, microtasks,
                 pc, iter, frozenFresh, frozenStale, turnBase, turnEnd, removed>>

\* source[key] = value, by the caller on the object it gave the constructor:
\* #target is that object, so the record changes and no trap runs.
SourceWrite(key, value) ==
  LET r == ReflectSet(target, key, value) IN
  /\ UserCode
  /\ target' = r.obj
  /\ last' = IF r.obj # target THEN "source" ELSE "sourceNoop"
  /\ FlushStats
  /\ UNCHANGED <<timers, sealed, origin, rejectedIdle, nested, snapshot, locked,
                 preBatchStaleState, queuedUpdateNotice, subscribers, microtasks,
                 pc, iter, frozenFresh, frozenStale, turnBase, turnEnd, removed>>

\* delete source[key], by the caller on the object it gave the constructor
SourceDelete(key) ==
  LET r == ReflectDeleteProperty(target, key) IN
  /\ UserCode
  /\ target' = r.obj
  /\ last' = IF r.obj # target THEN "source" ELSE "sourceNoop"
  /\ FlushStats
  /\ UNCHANGED <<timers, sealed, origin, rejectedIdle, nested, snapshot, locked,
                 preBatchStaleState, queuedUpdateNotice, subscribers, microtasks,
                 pc, iter, frozenFresh, frozenStale, turnBase, turnEnd, removed>>

\* setTimeout(callback, 0), by user code: the callback joins the task queue.
SetTimeout ==
  /\ UserCode
  /\ timers < MaxTimers
  /\ timers' = timers + 1
  /\ last' = "setTimeout"
  /\ FlushStats
  /\ UNCHANGED <<sealed, origin, rejectedIdle, nested, snapshot, target, locked,
                 preBatchStaleState, queuedUpdateNotice, subscribers, microtasks, pc,
                 iter, frozenFresh, frozenStale, turnBase, turnEnd, removed>>

\* The host starts a timer callback: it takes the next task only when the
\* stack is empty and the microtask queue has been drained.
TimerFires ==
  /\ pc = "sync"
  /\ microtasks = 0
  /\ timers > 0
  /\ timers' = timers - 1
  /\ last' = "timer"
  /\ UNCHANGED <<sealed, origin, rejectedIdle, nested, snapshot, target, locked,
                 preBatchStaleState, queuedUpdateNotice, subscribers, microtasks, pc,
                 iter, frozenFresh, frozenStale, turnBase, turnEnd, removed, cbOps,
                 invoked, regAtFlush>>

Subscribe(c) ==
  LET r == subscribe(c) IN
  /\ UserCode
  /\ subscribers' = r.subs
  /\ iter' = r.iter
  /\ removed' = removed \ {c}
  /\ last' = IF c \in Range(subscribers) THEN "resubscribe" ELSE "registry"
  /\ FlushStats
  /\ UNCHANGED <<timers, sealed, origin, rejectedIdle, nested, snapshot, target,
                 locked, preBatchStaleState, queuedUpdateNotice, microtasks, pc,
                 frozenFresh, frozenStale, turnBase, turnEnd>>

Unsubscribe(c) ==
  LET r == unsubscribe(c) IN
  /\ UserCode
  /\ subscribers' = r.subs
  /\ iter' = r.iter
  /\ removed' = IF c \in Range(subscribers) THEN removed \cup {c} ELSE removed
  /\ last' = "registry"
  /\ FlushStats
  /\ UNCHANGED <<timers, sealed, origin, rejectedIdle, nested, snapshot, target,
                 locked, preBatchStaleState, queuedUpdateNotice, microtasks, pc,
                 frozenFresh, frozenStale, turnBase, turnEnd>>

\* unsubscribeAll that also drops the batch in progress: the flag is cleared
\* and the baseline reset.
UnsubscribeAll_cancel ==
  LET r == unsubscribeAll IN
  /\ UserCode
  /\ subscribers' = r.subs
  /\ iter' = r.iter
  /\ removed' = removed \cup Range(subscribers)
  /\ queuedUpdateNotice' = FALSE
  /\ preBatchStaleState' = EmptyRec
  /\ last' = "registry"
  /\ FlushStats
  /\ UNCHANGED <<timers, sealed, origin, rejectedIdle, nested, snapshot, target,
                 locked, microtasks, pc, frozenFresh, frozenStale, turnBase,
                 turnEnd>>

UnsubscribeAll ==
  LET r == unsubscribeAll IN
  /\ UserCode
  /\ subscribers' = r.subs
  /\ iter' = r.iter
  /\ removed' = removed \cup Range(subscribers)
  /\ last' = "registry"
  /\ FlushStats
  /\ UNCHANGED <<timers, sealed, origin, rejectedIdle, nested, snapshot, target,
                 locked, preBatchStaleState, queuedUpdateNotice, microtasks, pc,
                 frozenFresh, frozenStale, turnBase, turnEnd>>

\* The synchronous turn ends and the host runs a queued flush: emitQueued
\* makes its two frozen copies and starts the loop over #subscribers.
FlushStart ==
  LET r == emitQueuedCopies(target, preBatchStaleState) IN
  /\ pc = "sync"
  /\ microtasks > 0
  /\ microtasks' = microtasks - 1
  /\ frozenFresh' = r.fresh
  /\ frozenStale' = r.stale
  /\ snapshot' = [frozen |-> r.frozen, copy |-> r.copy]
  /\ iter' = 0
  /\ pc' = "deliver"
  /\ turnEnd' = target
  /\ invoked' = {}
  /\ regAtFlush' = Range(subscribers)
  /\ last' = "flushStart"
  /\ UNCHANGED <<timers, sealed, origin, rejectedIdle, nested, target, locked,
                 preBatchStaleState, queuedUpdateNotice, subscribers, cbOps,
                 turnBase, removed>>

\* The loop calls the next subscriber with the frozen pair.
Invoke ==
  /\ pc = "deliver"
  /\ iter < Len(subscribers)
  /\ iter' = iter + 1
  /\ pc' = "callback"
  /\ cbOps' = 0
  /\ invoked' = invoked \cup {subscribers[iter + 1]}
  /\ last' = "invoke"
  /\ UNCHANGED <<timers, sealed, origin, rejectedIdle, nested, snapshot, target,
                 locked, preBatchStaleState, queuedUpdateNotice, subscribers,
                 microtasks, frozenFresh, frozenStale, turnBase, turnEnd, removed,
                 regAtFlush>>

\* The object the running subscriber received as `fresh` or as `stale`.
Received(which) == IF which = "fresh" THEN frozenFresh ELSE frozenStale

\* What a change of a received object does: a frozen object refuses it; an
\* object that is no copy is the live record (fresh) or the baseline (stale).
SnapshotChange(which, changed) ==
  LET ok == ~snapshot.frozen
      r  == IF ok THEN changed ELSE Received(which)
  IN /\ frozenFresh' = IF which = "fresh" THEN r ELSE frozenFresh
     /\ frozenStale' = IF which = "stale" THEN r ELSE frozenStale
     /\ target' = IF ok /\ ~snapshot.copy /\ which = "fresh" THEN r ELSE target
     /\ preBatchStaleState' =
          IF ok /\ ~snapshot.copy /\ which = "stale" THEN r ELSE preBatchStaleState
     /\ last' = IF ok THEN "snapshotWritten" ELSE "snapshotRejected"

\* The subscriber does fresh[key] = value or stale[key] = value.
SnapshotWrite(which, key, value) ==
  /\ pc = "callback"
  /\ UserCode
  /\ SnapshotChange(which, Assign(Received(which), key, value))
  /\ UNCHANGED <<timers, sealed, origin, rejectedIdle, nested, snapshot, locked,
                 queuedUpdateNotice, subscribers, microtasks, pc, iter, turnBase,
                 turnEnd, removed, invoked, regAtFlush>>

\* The subscriber does delete fresh[key] or delete stale[key].
SnapshotDelete(which, key) ==
  /\ pc = "callback"
  /\ UserCode
  /\ HasOwn(Received(which), key)
  /\ SnapshotChange(which, Remove(Received(which), key))
  /\ UNCHANGED <<timers, sealed, origin, rejectedIdle, nested, snapshot, locked,
                 queuedUpdateNotice, subscribers, microtasks, pc, iter, turnBase,
                 turnEnd, removed, invoked, regAtFlush>>

\* The subscriber does fresh[key].x = value or stale[key].x = value, for a key
\* that holds the object: the copy is shallow and so is the freeze, so this is
\* the object the record holds and it accepts the assignment.
SnapshotNestedWrite(which, key, value) ==
  /\ pc = "callback"
  /\ UserCode
  /\ HasOwn(Received(which), key)
  /\ Received(which)[key] = Obj
  /\ nested' = value
  /\ last' = IF ObjectIs(nested, value) THEN "snapshotNestedNoop" ELSE "snapshotNested"
  /\ UNCHANGED <<timers, sealed, origin, rejectedIdle, snapshot, target, locked,
                 preBatchStaleState, queuedUpdateNotice, subscribers, microtasks,
                 pc, iter, frozenFresh, frozenStale, turnBase, turnEnd, removed,
                 invoked, regAtFlush>>

\* The subscriber returns.
Return ==
  /\ pc = "callback"
  /\ pc' = "deliver"
  /\ cbOps' = 0
  /\ last' = "return"
  /\ UNCHANGED <<timers, sealed, origin, rejectedIdle, nested, snapshot, target,
                 locked, preBatchStaleState, queuedUpdateNotice, subscribers,
                 microtasks, iter, frozenFresh, frozenStale, turnBase, turnEnd,
                 removed, invoked, regAtFlush>>

\* The subscriber throws: the exception leaves emitQueued and the microtask,
\* so the two assignments after the emitQueued call do not run.  The host
\* reports an unhandled rejection and the program goes on.
Throw ==
  /\ pc = "callback"
  /\ pc' = "sync"
  /\ iter' = 0
  /\ cbOps' = 0
  /\ frozenFresh' = EmptyRec
  /\ frozenStale' = EmptyRec
  /\ snapshot' = NoSnapshot
  /\ turnEnd' = EmptyRec
  /\ turnBase' = <<>>
  /\ last' = "throw"
  /\ origin' = IF origin = <<>> THEN <<>> ELSE <<frozenFresh>>
  /\ rejectedIdle' = FALSE
  /\ UNCHANGED <<timers, sealed, nested, target, locked, preBatchStaleState,
                 queuedUpdateNotice, subscribers, microtasks, removed, invoked,
                 regAtFlush>>

\* The loop is over: the microtask clears the flag and resets the baseline.
FlushEnd ==
  LET r == flushCleanup IN
  /\ pc = "deliver"
  /\ iter >= Len(subscribers)
  /\ queuedUpdateNotice' = r.flag
  /\ preBatchStaleState' = r.stale
  /\ pc' = "sync"
  /\ iter' = 0
  /\ frozenFresh' = EmptyRec
  /\ frozenStale' = EmptyRec
  /\ snapshot' = NoSnapshot
  /\ turnEnd' = EmptyRec
  /\ turnBase' = <<>>
  /\ last' = "flushEnd"
  /\ origin' = IF origin = <<>> THEN <<>> ELSE <<frozenFresh>>
  /\ rejectedIdle' = FALSE
  /\ UNCHANGED <<timers, sealed, nested, target, locked, subscribers, microtasks,
                 cbOps, removed, invoked, regAtFlush>>

Next ==
  \/ \E k \in Keys, v \in Values : Write(k, v)
  \/ \E k \in Keys : Delete(k)
  \/ \E k \in Keys, v \in Values : CallAmendState(k, v)
  \/ \E k \in Keys : CallPruneState(k)
  \/ \E c \in Callbacks : Subscribe(c)
  \/ \E c \in Callbacks : Unsubscribe(c)
  \/ UnsubscribeAll
  \/ FlushStart
  \/ Invoke
  \/ \E w \in {"fresh", "stale"}, k \in Keys, v \in Values : SnapshotWrite(w, k, v)
  \/ \E w \in {"fresh", "stale"}, k \in Keys : SnapshotDelete(w, k)
  \/ Return
  \/ Throw
  \/ FlushEnd

Spec == Init /\ [][Next]_vars

\* The service with user code that also changes, in place, the object a value
\* of the record refers to: through `state` and through the pair a subscriber
\* received.  Under Spec that object is never changed in place.
DeepNext ==
  \/ Next
  \/ \E k \in Keys, v \in Values : NestedWrite(k, v)
  \/ \E w \in {"fresh", "stale"}, k \in Keys, v \in Values : SnapshotNestedWrite(w, k, v)

DeepSpec == Init /\ [][DeepNext]_vars

\* The packaged root variant: its traps, with the registry and the flush,
\* which are the same in both files.
RootNext ==
  \/ \E k \in Keys, v \in Values : RootWrite(k, v)
  \/ \E k \in Keys : RootDelete(k)
  \/ \E c \in Callbacks : Subscribe(c)
  \/ \E c \in Callbacks : Unsubscribe(c)
  \/ FlushStart
  \/ Invoke
  \/ Return
  \/ Throw
  \/ FlushEnd

RootSpec == Init /\ [][RootNext]_vars

\* The service on a sealed record, where a commit is refused or accepted key
\* by key.
SealSpec == SealInit /\ [][Next]_vars

\* The service with the history of what was given and what was delivered:
\* changes through `state`, a registry that grows, and flushes whose
\* subscribers return.
TrackNext ==
  \/ \E k \in Keys, v \in Values : Write(k, v)
  \/ \E k \in Keys : Delete(k)
  \/ \E c \in Callbacks : Subscribe(c)
  \/ FlushStart
  \/ Invoke
  \/ Return
  \/ FlushEnd

TrackSpec == TrackInit /\ [][TrackNext]_vars

\* The host runs every queued microtask, the for-of loop of emitQueued goes on
\* to its next entry and to its end, and a subscriber that was called returns
\* or throws.  User code is under no obligation to act.
\* The service together with a caller that also writes to the object it gave
\* the constructor.
AliasNext ==
  \/ \E k \in Keys, v \in Values : Write(k, v)
  \/ \E k \in Keys : Delete(k)
  \/ \E k \in Keys, v \in Values : SourceWrite(k, v)
  \/ \E k \in Keys : SourceDelete(k)
  \/ \E c \in Callbacks : Subscribe(c)
  \/ FlushStart
  \/ Invoke
  \/ Return
  \/ FlushEnd

AliasSpec == AliasInit /\ [][AliasNext]_vars

\* The service with user code that also queues timer callbacks.
TimerNext ==
  \/ \E k \in Keys, v \in Values : Write(k, v)
  \/ \E k \in Keys : Delete(k)
  \/ \E c \in Callbacks : Subscribe(c)
  \/ SetTimeout
  \/ TimerFires
  \/ FlushStart
  \/ Invoke
  \/ Return
  \/ Throw
  \/ FlushEnd

TimerSpec == Init /\ [][TimerNext]_vars

\* The service on a record of numbers.
NumberNext ==
  \/ \E k \in Keys, v \in Numbers : Write(k, v)
  \/ \E c \in Callbacks : Subscribe(c)
  \/ FlushStart
  \/ Invoke
  \/ Return
  \/ Throw
  \/ FlushEnd

NumberSpec == NumberInit /\ [][NumberNext]_vars

FairSpec ==
  /\ Spec
  /\ WF_vars(FlushStart)
  /\ WF_vars(Invoke)
  /\ WF_vars(Return \/ Throw)
  /\ WF_vars(FlushEnd)

TypeOK ==
  /\ target \in Records
  /\ locked \in BOOLEAN
  /\ preBatchStaleState \in Records
  /\ queuedUpdateNotice \in BOOLEAN
  /\ Range(subscribers) \subseteq Callbacks
  /\ Len(subscribers) = Cardinality(Range(subscribers))
  /\ microtasks \in 0..MaxQueue
  /\ pc \in {"sync", "deliver", "callback"}
  /\ iter \in 0..Len(subscribers)
  /\ cbOps \in 0..MaxCbOps
  /\ nested \in Values
  /\ snapshot \in [frozen : BOOLEAN, copy : BOOLEAN]
  /\ sealed \in BOOLEAN
  /\ rejectedIdle \in BOOLEAN
  /\ Len(origin) <= 1
  /\ Len(turnBase) <= 1
  /\ timers \in 0..MaxTimers

\* ---------------------------------------------------------------- claims
Delivering == pc \in {"deliver", "callback"}
Without(rec, key) == [k \in DOMAIN rec \ {key} |-> rec[k]]
Differs(k) ==
  \/ HasOwn(frozenStale, k) # HasOwn(frozenFresh, k)
  \/ HasOwn(frozenStale, k) /\ HasOwn(frozenFresh, k) /\ frozenStale[k] # frozenFresh[k]

\* C1: after every committed change through `state` in a synchronous turn
\* exactly one flush is scheduled, and a flush that has ended has called every
\* callback that was registered when it started and is registered still.
C1_OneFlushPerTurn ==
  /\ (pc = "sync" /\ last \in {"set", "delete"}) => microtasks = 1
  /\ last \in {"flushEnd", "throw"} => (regAtFlush \ removed) \subseteq invoked

\* C2: first-stale, last-fresh: the pair a flush delivers has as `stale` the
\* record as it was before the first committed change through `state` of the
\* turn, and as `fresh` the record as it was when the turn ended.
C2_FirstStaleLastFresh ==
  Delivering =>
    /\ turnBase # <<>>
    /\ frozenStale = turnBase[1]
    /\ frozenFresh = turnEnd

\* A subscriber is running with a pair in which both keys changed, so the
\* batch held at least two changes.
C2_Witness == pc = "callback" /\ \A k \in Keys : Differs(k)

\* C3: no-op stability: a write through `state` of the value the key already
\* has returns true and leaves the record, the baseline, the flag, the
\* microtask queue and the delivery position as they are.
C3_NoOpWrite ==
  [][last' \in {"setNoop", "setNoopFailed"} =>
       /\ last' = "setNoop"
       /\ UNCHANGED <<target, preBatchStaleState, queuedUpdateNotice, microtasks,
                      subscribers, pc, iter>>]_vars

\* A no-op write has run while a batch was pending.
C3_Witness == last = "setNoop" /\ queuedUpdateNotice /\ microtasks = 1

\* C4: batch re-entrancy: a change a subscriber commits through `state` while
\* it is being called has a flush of its own scheduled.
C4_Reentrant == (pc = "callback" /\ last \in {"set", "delete"}) => microtasks >= 1

\* C5: a committed delete through `state` in a synchronous turn has one flush
\* scheduled, and a flush whose turn removed exactly key k delivers `fresh`
\* without k and `stale` with k at its old value, the other keys equal.
C5_DeleteNotifies ==
  /\ (pc = "sync" /\ last = "delete") => microtasks = 1
  /\ \A k \in Keys :
       (Delivering /\ turnBase # <<>> /\ HasOwn(turnBase[1], k)
          /\ turnEnd = Without(turnBase[1], k))
       => (frozenFresh = Without(turnBase[1], k) /\ frozenStale = turnBase[1])

\* C6: absent-key deletion: a delete through `state` of a key the record does
\* not own returns true and leaves the record, the baseline, the flag, the
\* microtask queue and the delivery position as they are.
C6_AbsentDelete ==
  [][last' \in {"deleteNoop", "deleteNoopFailed"} =>
       /\ last' = "deleteNoop"
       /\ UNCHANGED <<target, preBatchStaleState, queuedUpdateNotice, microtasks,
                      subscribers, pc, iter>>]_vars

\* A delete of an absent key has run while a batch was pending.
C6_Witness == last = "deleteNoop" /\ queuedUpdateNotice /\ microtasks = 1

\* C7: when a flush ends because a subscriber threw, the flag is clear and
\* the baseline is reset.
C7_FaultClearsFlag ==
  last = "throw" => (~queuedUpdateNotice /\ preBatchStaleState = EmptyRec)

\* C8: fault isolation: when a subscriber has thrown, the flush has still
\* called every callback that was registered when it started and is
\* registered still.
C8_FaultIsolation == last = "throw" => (regAtFlush \ removed) \subseteq invoked

\* C9: a change committed by a direct call of amendState or pruneState in a
\* synchronous turn has a flush scheduled, as the same change through `state`
\* has.
C9_DirectNotifies == (pc = "sync" /\ last = "direct") => microtasks >= 1

\* C10: unsubscribe correctness: the callback a flush calls is never one that
\* was unsubscribed and not subscribed again.
C10_Unsubscribed == last = "invoke" => subscribers[iter] \notin removed

\* A flush has run to its end and called a subscriber, while a callback
\* removed before the flush started was left out.
C10_Witness ==
  /\ last = "flushEnd"
  /\ invoked # {}
  /\ removed \ regAtFlush # {}

\* C11: exactly once per flush: the loop never calls a callback it has already
\* called in the same flush, and a flush that has run to its end has called
\* every callback that was registered when it started and is registered
\* still, whatever the subscribers subscribed or unsubscribed on the way.
C11_ExactlyOncePerFlush ==
  [][/\ last' = "invoke" => subscribers'[iter'] \notin invoked
     /\ last' = "flushEnd" => (regAtFlush \ removed) \subseteq invoked]_vars

UserSteps ==
  {"set", "setNoop", "setRejected", "setNoopFailed",
   "delete", "deleteNoop", "deleteRejected", "deleteNoopFailed",
   "direct", "directNoop", "directRejected", "directNoopFailed",
   "nested", "nestedNoop", "registry", "resubscribe"}

\* C13: asynchronous delivery: an operation on the service calls no subscriber
\* and does not enter or leave a delivery; the operation that starts a batch
\* hands one flush to the microtask queue; a flush starts only from that queue
\* when the synchronous turn is over, and a subscriber is called only by the
\* loop of a flush.
C13_AsynchronousDelivery ==
  [][/\ last' \in UserSteps => (pc' = pc /\ invoked' \subseteq invoked)
     /\ (~queuedUpdateNotice /\ queuedUpdateNotice') => microtasks' = microtasks + 1
     /\ last' = "flushStart" => (pc = "sync" /\ microtasks' = microtasks - 1)
     /\ last' = "invoke" => pc = "deliver"
     /\ pc' = "callback" => (pc = "callback" \/ last' = "invoke")]_vars

\* A change through `state` has been committed with two subscribers
\* registered: the flush is queued and nobody has been called.
C13_Witness ==
  /\ last = "set"
  /\ pc = "sync"
  /\ Len(subscribers) = 2
  /\ microtasks = 1
  /\ invoked = {}

\* C14: frozen snapshots: the pair a flush hands to the subscribers is frozen
\* and made of copies, and a write or a delete of a top-level property of a
\* received object is refused and leaves the received objects, the record, the
\* baseline, the flag and the microtask queue as they are.
C14_FrozenSnapshots ==
  [][/\ Delivering' => (snapshot'.frozen /\ snapshot'.copy)
     /\ last' \in {"snapshotWritten", "snapshotRejected"} =>
          /\ last' = "snapshotRejected"
          /\ UNCHANGED <<target, preBatchStaleState, queuedUpdateNotice, microtasks,
                         frozenFresh, frozenStale>>]_vars

\* A subscriber has tried to change a received object whose content is that
\* of the live record.
C14_Witness ==
  /\ last = "snapshotRejected"
  /\ frozenFresh = target
  /\ frozenFresh # EmptyRec
  /\ frozenStale # frozenFresh

\* The steps in which a subscriber acts on an object it received.
SnapshotSteps ==
  {"snapshotWritten", "snapshotRejected", "snapshotNested", "snapshotNestedNoop"}

\* C15: nothing a subscriber does through the objects it received reaches the
\* container: after such a step the record is as before and so is the content
\* of an object value read through `state`.
C15_NoPropagation ==
  [][last' \in SnapshotSteps =>
       /\ target' = target
       /\ (\E k \in DOMAIN target : target[k] = Obj) => nested' = nested]_vars

\* C16: rejected commit: when the record refuses a write or a delete, through
\* `state` or by a direct call, the operation answers false, the record, the
\* flag and the microtask queue are as before and no delivery is entered.
\* (Outcome names a step "...Rejected" exactly when the operation was a change
\* and returned false.)
C16_RejectedCommit ==
  [][/\ last' \in {"setRejected", "deleteRejected", "directRejected"} =>
          UNCHANGED <<target, queuedUpdateNotice, microtasks, pc, iter, subscribers>>
     /\ (locked /\ last' \in UserSteps) =>
          last' \notin {"set", "delete", "direct"}]_vars

\* A write through `state` has been refused by a frozen record.
C16_Witness == last = "setRejected" /\ locked /\ microtasks = 0 /\ ~queuedUpdateNotice

\* C17: a pending flush always runs: once the flag is set the flush is
\* executed and the flag is clear again, and no operation performed while the
\* flag is set removes the flush from the microtask queue or adds another.
C17_PendingFlushRuns ==
  /\ queuedUpdateNotice ~> ~queuedUpdateNotice
  /\ [][(queuedUpdateNotice /\ last' \in UserSteps) => microtasks' = microtasks]_vars

\* C18: write-then-revert still notifies: when the changes committed through
\* `state` in a synchronous turn have brought the record back to what it was
\* before the first of them, one flush is scheduled all the same.
C18_RevertNotifies ==
  (pc = "sync" /\ last \in {"set", "delete"} /\ turnBase # <<>> /\ target = turnBase[1])
    => microtasks = 1

\* C19: undefined is a value distinct from absence: a write of undefined
\* through `state` to a key the record does not own makes the key an own key
\* of the record and has a flush scheduled.
C19_UndefinedToAbsentKey ==
  [][\A k \in Keys :
       (~locked /\ ~HasOwn(target, k) /\ Write(k, Undef)) =>
          /\ HasOwn(target', k)
          /\ queuedUpdateNotice'
          /\ microtasks' >= 1]_vars

\* C20: a change of a nested value reached through `state`, made in a
\* synchronous turn, has a flush scheduled.
C20_NestedChangeNotifies == (pc = "sync" /\ last = "nested") => microtasks >= 1

\* C21: in the root variant a write through `state` of a value that differs
\* from the key's value on a record that accepts it ends with success, and
\* the key then holds the new value.
C21_RootWriteSucceeds ==
  [][\A k \in Keys, v \in Values :
       (~locked /\ ~ObjectIs(ReflectGet(target, k), v) /\ RootWrite(k, v)) =>
          /\ last' = "rootSet"
          /\ HasOwn(target', k)
          /\ target'[k] = v]_vars

\* C22: in the root variant a write through `state` of the value the key has
\* leaves the flag and the microtask queue as they are: no flush is scheduled.
C22_RootNoOpWrite ==
  [][last' = "rootSetNoop" => UNCHANGED <<queuedUpdateNotice, microtasks>>]_vars

\* C23: construction: a new container holds exactly the mapping it was given,
\* the empty mapping when it was given none, and is idle: flag clear, baseline
\* empty, no subscriber, no flush queued or running.
C23_Construction ==
  last = "new" =>
    /\ origin # <<>>
    /\ target = origin[1]
    /\ ~queuedUpdateNotice
    /\ preBatchStaleState = EmptyRec
    /\ subscribers = <<>>
    /\ microtasks = 0
    /\ pc = "sync"

\* A container has been constructed with a mapping of two keys.
C23_Witness == last = "new" /\ DOMAIN target = Keys /\ origin = <<target>>

\* C24: coalescing invariant: at most one flush is queued, and the flag is
\* set exactly when a flush is queued or running.
C24_Coalescing ==
  /\ microtasks <= 1
  /\ queuedUpdateNotice <=> (microtasks >= 1 \/ Delivering)

\* The steps that may commit a change or be refused one.
ChangeSteps ==
  {"set", "delete", "direct", "setRejected", "deleteRejected", "directRejected"}

C26_Continuity ==
  (Delivering /\ origin # <<>>) => frozenStale = origin[1]

\* C27: a rejected commit does not corrupt a later batch: a change the record
\* refuses while no batch is pending leaves the record and the flag as they
\* are and captures the record itself as baseline, and the flush of the next
\* batch delivers as `stale` the record as it was before that batch's first
\* committed change through `state`.
C27_RejectedThenBatch ==
  /\ []((Delivering /\ rejectedIdle) =>
          /\ turnBase # <<>>
          /\ frozenStale = turnBase[1])
  /\ [][(~queuedUpdateNotice /\ last' \in ChangeSteps \ {"set", "delete", "direct"}) =>
          /\ target' = target
          /\ preBatchStaleState' = target
          /\ ~queuedUpdateNotice']_vars

\* A subscriber is running with a pair that differs, in a batch that began
\* after the sealed record had refused a change while no batch was pending.
C27_Witness ==
  /\ pc = "callback"
  /\ sealed
  /\ rejectedIdle
  /\ frozenStale # frozenFresh

\* C28: flush cleanup: while the frozen pair is being delivered the flag is
\* still set and the baseline is still the one delivered; the flag is cleared
\* only by the step that ends a flush, after the loop over the subscribers,
\* and after that step the flag is clear and the baseline is the empty mapping.
C28_FlushCleanup ==
  /\ [](Delivering =>
          /\ queuedUpdateNotice
          /\ snapshot.frozen
          /\ preBatchStaleState = frozenStale)
  /\ [](last = "flushEnd" =>
          /\ pc = "sync"
          /\ ~queuedUpdateNotice
          /\ preBatchStaleState = EmptyRec)
  /\ [][(queuedUpdateNotice /\ ~queuedUpdateNotice') =>
          /\ last' = "flushEnd"
          /\ pc = "deliver"
          /\ iter >= Len(subscribers)]_vars

\* A flush has run to its end after calling both subscribers, and the record
\* is not empty.
C28_Witness ==
  /\ last = "flushEnd"
  /\ invoked = Callbacks
  /\ target # EmptyRec
  /\ microtasks = 0

\* C29: delivery iterates the subscriber list as it was when the flush
\* started: every callback the flush calls was registered at that moment.
C29_SubscriberSnapshot == last = "invoke" => subscribers[iter] \in regAtFlush

\* C30: the record is private to the container: the record read through
\* `state` changes only in a write or delete through `state` or a direct
\* amendState or pruneState that committed.
C30_PrivateRecord ==
  [][target' # target => last' \in {"set", "delete", "direct"}]_vars

\* C31: notifications are totally ordered: while a flush is delivering no
\* other flush is pending, and never more than one is pending, so each flush
\* has ended before the batch of the next one starts.
C31_TotalOrder ==
  /\ Delivering => microtasks = 0
  /\ ~Delivering => microtasks <= 1

\* A subscriber has committed a write through `state` during delivery, and
\* no second flush is pending behind the running one.
C31_Witness == pc = "callback" /\ last = "set" /\ microtasks = 0

\* The writes and deletes through `state` and the direct calls, whatever
\* their outcome.
MutationSteps == UserSteps \ {"nested", "nestedNoop", "registry", "resubscribe"}

\* C32: frame conditions between mutation and registry: a write or a delete,
\* through `state` or by a direct call, leaves the registry as it is, and
\* subscribe, unsubscribe and unsubscribeAll leave the record, the baseline,
\* the flag and the microtask queue as they are.
C32_Frames ==
  [][/\ last' \in MutationSteps => subscribers' = subscribers
     /\ last' \in {"registry", "resubscribe"} =>
          UNCHANGED <<target, preBatchStaleState, queuedUpdateNotice, microtasks>>]_vars

\* The registry has been emptied while a batch with a baseline that is not
\* empty was pending: the batch is pending still.
C32_Witness ==
  /\ last = "registry"
  /\ subscribers = <<>>
  /\ removed # {}
  /\ queuedUpdateNotice
  /\ microtasks = 1
  /\ preBatchStaleState # EmptyRec

\* C33: microtask priority: when the host starts a timer callback, every
\* change committed through `state` in a synchronous turn has been handed to
\* the subscribers by a flush that has ended.
C33_FlushBeforeTimer == last = "timer" => turnBase = <<>>

\* C34: same-value change test: a write through `state` of NaN to a key that
\* holds NaN is a no-op that leaves the record, the flag and the microtask
\* queue as they are, and a write of one zero to a key that holds the other
\* commits and leaves one flush pending.
C34_SameValue ==
  [][\A k \in Keys, v \in Numbers :
       Write(k, v) =>
         /\ (ReflectGet(target, k) = NaN /\ v = NaN) =>
              /\ last' = "setNoop"
              /\ UNCHANGED <<target, queuedUpdateNotice, microtasks>>
         /\ {ReflectGet(target, k), v} = {PosZero, NegZero} =>
              /\ last' = "set"
              /\ target'[k] = v
              /\ queuedUpdateNotice'
              /\ microtasks' = 1]_vars

\* C35: no spurious notification: a flush that is pending or running was
\* caused by a change through `state` that was change-worthy and committed,
\* made since the flush before it ended; in particular a subscriber is called
\* only then.
C35_NoSpuriousFlush ==
  /\ microtasks > 0 => turnBase # <<>>
  /\ last = "invoke" => turnBase # <<>>

\* A subscriber is being called by a flush whose batch emptied a record that
\* held a key: the batch held a committed delete.
C35_Witness ==
  /\ last = "invoke"
  /\ turnBase # <<>>
  /\ turnBase[1] # EmptyRec
  /\ frozenFresh = EmptyRec

\* The pair being delivered holds the object, under some key.
PairHoldsObj ==
  \E w \in {"fresh", "stale"} :
    \E k \in DOMAIN Received(w) : Received(w)[k] = Obj

\* C36: one pair per flush: while a flush delivers and a subscriber is still
\* to be called, no step changes the pair made when the flush started, nor
\* the content of an object the pair holds.
C36_OnePairPerFlush ==
  [][(Delivering /\ Delivering' /\ iter' < Len(subscribers')) =>
       /\ UNCHANGED <<frozenFresh, frozenStale>>
       /\ PairHoldsObj => nested' = nested]_vars

\* C37: late subscription: a flush that is over has called every callback
\* that was registered when it started, the ones subscribed after the change
\* among them, and is registered still.
C37_LateSubscription ==
  last \in {"flushEnd", "throw"} =>
    \A c \in Range(subscribers) : c \in regAtFlush => c \in invoked

\* What a trap of src/src/main.js leaves behind: its answer and the fields.
Trap(r) ==
  [ret |-> r.ret, target |-> r.target, stale |-> r.stale, flag |-> r.flag,
   queue |-> r.queue]

\* C38: the two working variants are observationally equivalent: in every
\* state src/src/main.js reaches, each operation of src/unnamed/part_000
\* gives the same answer, record, baseline, flag and microtask queue, the
\* same registry and the same frozen pair as the operation of src/src/main.js,
\* so the two stay in the same state and deliver the same pairs to the same
\* callbacks.
C38_VariantsAgree ==
  /\ \A k \in Keys, v \in Values : partSet(k, v) = Trap(agentSet(k, v))
  /\ \A k \in Keys : partDeleteProperty(k) = Trap(agentDeleteProperty(k))
  /\ \A c \in Callbacks :
       /\ partSubscribe(c) = subscribe(c)
       /\ partUnsubscribe(c) = unsubscribe(c)
  /\ partUnsubscribeAll = unsubscribeAll
  /\ partEmitQueued(target, preBatchStaleState) =
       emitQueuedCopies(target, preBatchStaleState)
  /\ partFlushCleanup = flushCleanup

\* A subscriber is running and a write through `state` would commit: in both
\* variants it changes the record and queues nothing.
C38_Witness ==
  /\ pc = "callback"
  /\ queuedUpdateNotice
  /\ \E k \in Keys, v \in Values :
       /\ partSet(k, v).ret
       /\ partSet(k, v).target # target
       /\ partSet(k, v).queue = microtasks
       /\ partSet(k, v) = Trap(agentSet(k, v))
====
